---- MODULE Spec2Model ----
(***************************************************************************)
(* Model of the rig monitoring agent (agent-package/agent.py): one process *)
(* launch constructs a RigAgent from config.json, runs the three probes,   *)
(* composes the status report, POSTs it once and exits.                    *)
(*                                                                         *)
(* Python dicts are functions over a set of string keys; report values are *)
(* the JSON scalars that go on the wire, written as strings.  A Python     *)
(* local that is not bound yet is <<>>, a bound one is <<value>>.          *)
(***************************************************************************)
EXTENDS Integers, Sequences, FiniteSets, TLC

VARIABLES
    pc,             \* position of the process in __main__ / run / collect_status
    config_file,    \* config.json on disk: [kind, content]
    rig_id,         \* self.rig_id        (<<>> until __init__ binds it)
    metadata,       \* self.metadata      (<<>> until __init__ binds it)
    activity,       \* (is_testing, test_name) local of collect_status
    network_info,   \* network_info local of collect_status
    system_status,  \* system_status local of collect_status
    status,         \* the composed report
    net_fault,      \* which socket call failed in get_network_info
    os_fault,       \* which psutil query failed in collect_system_status
    http_outcome,   \* what requests.post did
    send_result,    \* return value of send_heartbeat
    posts,          \* number of HTTP POSTs put on the wire
    exc,            \* exception that escaped into run's handler ("none" if none)
    log,            \* logger output, one message prefix per record
    exit_code,      \* process exit status (-1 while running)
    scan_names,     \* check_test_running in isolation: test_process_names
    scan_table,     \* check_test_running in isolation: the process table
    scan_result     \* check_test_running in isolation: what it returned

vars == <<pc, config_file, rig_id, metadata, activity, network_info,
          system_status, status, net_fault, os_fault, http_outcome,
          send_result, posts, exc, log, exit_code,
          scan_names, scan_table, scan_result>>

(***************************************************************************)
(* Bounds                                                                  *)
(***************************************************************************)
MaxMetaKeys == 1    \* metadata mappings have at most this many keys
MaxNames == 2       \* test_process_names lists have at most this many entries
MaxProcs == 2       \* process tables have at most this many processes

(***************************************************************************)
(* Values                                                                  *)
(***************************************************************************)
None == "null"
PyBool(b) == IF b THEN "true" ELSE "false"

EmptyDict == [k \in {} |-> None]

\* {**a, **b}: keys of b overwrite keys of a
Merge(a, b) ==
    [k \in (DOMAIN a) \cup (DOMAIN b) |-> IF k \in DOMAIN b THEN b[k] ELSE a[k]]

\* x in l, for a Python list l
InList(x, l) == \E i \in DOMAIN l : l[i] = x

SeqsUpTo(S, n) == UNION {[1..m -> S] : m \in 0..n}

SystemKeys == {"cpu_percent", "memory_percent", "memory_used_gb",
               "memory_total_gb", "disk_percent", "disk_free_gb",
               "uptime_hours"}
NetworkKeys == {"hostname", "ip_address"}
HeadKeys == {"rig_id", "timestamp", "status", "is_testing", "test_name"}
TailKeys == {"agent_version", "os"}
BuiltinKeys == HeadKeys \cup NetworkKeys \cup SystemKeys \cup TailKeys

RequiredKeys == {"server_url", "api_key", "rig_id"}

\* inputs: what config.json may hold
MetaKeyPool == BuiltinKeys \cup {"location"}
MetaValue == "from-metadata"
Metadatas ==
    {[k \in D |-> MetaValue] :
        D \in {X \in SUBSET MetaKeyPool : Cardinality(X) <= MaxMetaKeys}}

ProcessNames == {"hil.exe", "HIL.EXE", "hil"}
NameLists == SeqsUpTo(ProcessNames, MaxNames)
ConfigNameLists == {<<>>, <<"hil.exe">>, <<"HIL.EXE", "hil">>}

ConfigDict(keys, md, names) ==
    [k \in keys |->
        CASE k = "server_url" -> "http://x"
          [] k = "api_key" -> "k"
          [] k = "rig_id" -> "r1"
          [] k = "metadata" -> md
          [] k = "test_process_names" -> names]

ConfigKeySets ==
    {RequiredKeys \cup {"metadata", "test_process_names"},
     RequiredKeys,
     {"server_url", "api_key", "metadata", "test_process_names"}}

ConfigFiles ==
    {[kind |-> "missing", content |-> EmptyDict],
     [kind |-> "invalid", content |-> EmptyDict]}
    \cup
    {[kind |-> "ok", content |-> ConfigDict(ks, md, nl)] :
        ks \in ConfigKeySets, md \in Metadatas, nl \in ConfigNameLists}

\* dict.get(key, default)
Get(d, key, default) == IF key \in DOMAIN d THEN d[key] ELSE default

(***************************************************************************)
(* check_test_running                                                      *)
(***************************************************************************)
\* one step of psutil.process_iter(["name"]): a process whose name is read,
\* one that raises NoSuchProcess or AccessDenied inside the loop body, or
\* the iteration itself failing with some other error
ProcKinds == {"ok", "NoSuchProcess", "AccessDenied", "OSError"}
ProcEntries == [kind : ProcKinds, name : ProcessNames]
ProcessTables == SeqsUpTo(ProcEntries, MaxProcs)

RECURSIVE check_test_running_stop(_, _)
check_test_running_stop(test_processes, table) ==
    IF table = <<>> THEN [exc |-> "none", is_testing |-> FALSE, test_name |-> None]
    ELSE LET proc == Head(table) IN
         CASE proc.kind = "OSError" ->
                [exc |-> "OSError", is_testing |-> FALSE, test_name |-> None]
           [] proc.kind \in {"NoSuchProcess", "AccessDenied"} ->
                [exc |-> "none", is_testing |-> FALSE, test_name |-> None]
           [] OTHER ->
                IF InList(proc.name, test_processes)
                THEN [exc |-> "none", is_testing |-> TRUE, test_name |-> proc.name]
                ELSE check_test_running_stop(test_processes, Tail(table))

RECURSIVE check_test_running(_, _)
check_test_running(test_processes, table) ==
    IF table = <<>> THEN [exc |-> "none", is_testing |-> FALSE, test_name |-> None]
    ELSE LET proc == Head(table) IN
         CASE proc.kind = "OSError" ->
                [exc |-> "OSError", is_testing |-> FALSE, test_name |-> None]
           [] proc.kind \in {"NoSuchProcess", "AccessDenied"} ->
                check_test_running(test_processes, Tail(table))
           [] OTHER ->
                IF InList(proc.name, test_processes)
                THEN [exc |-> "none", is_testing |-> TRUE, test_name |-> proc.name]
                ELSE check_test_running(test_processes, Tail(table))

(***************************************************************************)
(* get_network_info                                                        *)
(***************************************************************************)
NetFaults == {"none", "gethostname", "gethostbyname"}
LocalHostname == "rig-host"
LocalIp == "10.0.0.5"

get_network_info_partial(fault) ==
    CASE fault = "none" ->
           [val |-> [hostname |-> LocalHostname, ip_address |-> LocalIp],
            log |-> <<>>]
      [] fault = "gethostname" ->
           [val |-> [hostname |-> "unknown", ip_address |-> "unknown"],
            log |-> <<"Error getting network info">>]
      [] OTHER ->
           [val |-> [hostname |-> LocalHostname, ip_address |-> "unknown"],
            log |-> <<"Error getting network info">>]

get_network_info(fault) ==
    IF fault = "none"
    THEN [val |-> [hostname |-> LocalHostname, ip_address |-> LocalIp],
          log |-> <<>>]
    ELSE [val |-> [hostname |-> "unknown", ip_address |-> "unknown"],
          log |-> <<"Error getting network info">>]

(***************************************************************************)
(* collect_system_status                                                   *)
(***************************************************************************)
OsFaults == {"none", "boot_time", "cpu_percent", "virtual_memory", "disk_usage"}

Snapshot ==
    [k \in SystemKeys |->
        CASE k = "cpu_percent" -> "12.5"
          [] k = "memory_percent" -> "40.0"
          [] k = "memory_used_gb" -> "6.4"
          [] k = "memory_total_gb" -> "16.0"
          [] k = "disk_percent" -> "55.0"
          [] k = "disk_free_gb" -> "210.33"
          [] k = "uptime_hours" -> "72.5"]

\* psutil.boot_time() is read before the try block is entered
collect_system_status(fault) ==
    CASE fault = "boot_time" ->
           [exc |-> "boot_time", val |-> EmptyDict, log |-> <<>>]
      [] fault = "none" ->
           [exc |-> "none", val |-> Snapshot, log |-> <<>>]
      [] OTHER ->
           [exc |-> "none", val |-> EmptyDict,
            log |-> <<"Error collecting system status">>]

(***************************************************************************)
(* collect_status: the dict literal, built left to right                   *)
(***************************************************************************)
Timestamp == "2026-01-01T00:00:00+00:00"
Platform == "Windows-10"
AgentVersion == "1.0.0"

StatusHead(rid, act) ==
    [k \in HeadKeys |->
        CASE k = "rig_id" -> rid
          [] k = "timestamp" -> Timestamp
          [] k = "status" -> IF act.is_testing THEN "busy" ELSE "available"
          [] k = "is_testing" -> PyBool(act.is_testing)
          [] k = "test_name" -> act.test_name]

StatusTail == [agent_version |-> AgentVersion, os |-> Platform]

collect_status_meta_first(rid, md, act, net, sys) ==
    Merge(Merge(Merge(Merge(StatusHead(rid, act), md), net), sys), StatusTail)

collect_status(rid, md, act, net, sys) ==
    Merge(Merge(Merge(Merge(StatusHead(rid, act), net), sys), md), StatusTail)

(***************************************************************************)
(* send_heartbeat                                                          *)
(***************************************************************************)
StatusCodes == {200, 201, 401, 500}
SendExceptions == {"ConnectionError", "ConnectTimeout", "ReadTimeout", "InvalidURL"}
HttpOutcomes ==
    [kind : {"response"}, code : StatusCodes, exception : {"none"}]
    \cup [kind : {"raised"}, code : {0}, exception : SendExceptions]

\* the classes an exception raised by requests.post is an instance of
ExceptionClasses(e) ==
    CASE e = "ConnectionError" -> {"ConnectionError", "RequestException", "Exception"}
      [] e = "ConnectTimeout" -> {"ConnectTimeout", "ConnectionError", "Timeout",
                                  "RequestException", "Exception"}
      [] e = "ReadTimeout" -> {"ReadTimeout", "Timeout", "RequestException", "Exception"}
      [] OTHER -> {"InvalidURL", "RequestException", "Exception"}

\* whether the request left the machine before the outcome was known
OnTheWire(o) == o.kind = "response" \/ o.exception # "InvalidURL"

send_heartbeat_ok(o) ==
    IF o.kind = "response"
    THEN IF o.code < 400
         THEN [ret |-> TRUE, log |-> <<"Heartbeat sent successfully">>]
         ELSE [ret |-> FALSE, log |-> <<"Server returned status">>]
    ELSE IF "ConnectionError" \in ExceptionClasses(o.exception)
         THEN [ret |-> FALSE, log |-> <<"Cannot connect to server">>]
         ELSE IF "Timeout" \in ExceptionClasses(o.exception)
              THEN [ret |-> FALSE, log |-> <<"Server request timed out">>]
              ELSE [ret |-> FALSE, log |-> <<"Error sending heartbeat">>]

send_heartbeat(o) ==
    IF o.kind = "response"
    THEN IF o.code = 200
         THEN [ret |-> TRUE, log |-> <<"Heartbeat sent successfully">>]
         ELSE [ret |-> FALSE, log |-> <<"Server returned status">>]
    ELSE IF "ConnectionError" \in ExceptionClasses(o.exception)
         THEN [ret |-> FALSE, log |-> <<"Cannot connect to server">>]
         ELSE IF "Timeout" \in ExceptionClasses(o.exception)
              THEN [ret |-> FALSE, log |-> <<"Server request timed out">>]
              ELSE [ret |-> FALSE, log |-> <<"Error sending heartbeat">>]

(***************************************************************************)
(* The process: __main__ -> RigAgent() -> run() -> exit                    *)
(***************************************************************************)
Running == -1

Init ==
    /\ pc = "main"
    /\ config_file \in ConfigFiles
    /\ rig_id = <<>>
    /\ metadata = <<>>
    /\ activity = <<>>
    /\ network_info = <<>>
    /\ system_status = <<>>
    /\ status = <<>>
    /\ net_fault = <<>>
    /\ os_fault = <<>>
    /\ http_outcome = <<>>
    /\ send_result = <<>>
    /\ posts = 0
    /\ exc = "none"
    /\ log = <<>>
    /\ exit_code = Running
    /\ scan_names = <<>>
    /\ scan_table = <<>>
    /\ scan_result = <<>>

\* RigAgent.__init__ with load_config; sys.exit(1) where the file is missing
\* or is not JSON, an uncaught KeyError (interpreter exit status 1) where a
\* required key is absent
Construct ==
    /\ pc = "main"
    /\ IF config_file.kind = "missing"
       THEN /\ log' = Append(log, "Config file not found")
            /\ exit_code' = 1
            /\ pc' = "exited"
            /\ UNCHANGED <<rig_id, metadata, exc>>
       ELSE IF config_file.kind = "invalid"
       THEN /\ log' = Append(log, "Invalid JSON in config file")
            /\ exit_code' = 1
            /\ pc' = "exited"
            /\ UNCHANGED <<rig_id, metadata, exc>>
       ELSE IF ~(RequiredKeys \subseteq DOMAIN config_file.content)
       THEN /\ exc' = "KeyError"
            /\ exit_code' = 1
            /\ pc' = "exited"
            /\ UNCHANGED <<rig_id, metadata, log>>
       ELSE /\ rig_id' = <<config_file.content["rig_id"]>>
            /\ metadata' = <<Get(config_file.content, "metadata", EmptyDict)>>
            /\ pc' = "run"
            /\ UNCHANGED <<exc, log, exit_code>>
    /\ UNCHANGED <<config_file, activity, network_info, system_status, status,
                   net_fault, os_fault, http_outcome, send_result, posts,
                   scan_names, scan_table, scan_result>>

\* run(): the start marker, then into the try block
RunStart ==
    /\ pc = "run"
    /\ log' = Append(log, "HIL Agent Run")
    /\ pc' = "check_test_running"
    /\ UNCHANGED <<config_file, rig_id, metadata, activity, network_info,
                   system_status, status, net_fault, os_fault, http_outcome,
                   send_result, posts, exc, exit_code,
                   scan_names, scan_table, scan_result>>

\* collect_status, first call: is_testing, test_name = self.check_test_running()
CheckTestRunning ==
    /\ pc = "check_test_running"
    /\ \E table \in ProcessTables :
         LET r == check_test_running(
                      Get(config_file.content, "test_process_names", <<>>), table)
         IN IF r.exc # "none"
            THEN /\ exc' = r.exc
                 /\ pc' = "except"
                 /\ UNCHANGED activity
            ELSE /\ activity' = <<[is_testing |-> r.is_testing,
                                   test_name |-> r.test_name]>>
                 /\ pc' = "get_network_info"
                 /\ UNCHANGED exc
    /\ UNCHANGED <<config_file, rig_id, metadata, network_info, system_status,
                   status, net_fault, os_fault, http_outcome, send_result,
                   posts, log, exit_code, scan_names, scan_table, scan_result>>

\* collect_status, second call: network_info = self.get_network_info()
GetNetworkInfo ==
    /\ pc = "get_network_info"
    /\ \E f \in NetFaults :
         LET r == get_network_info(f)
         IN /\ net_fault' = <<f>>
            /\ network_info' = <<r.val>>
            /\ log' = log \o r.log
    /\ pc' = "collect_system_status"
    /\ UNCHANGED <<config_file, rig_id, metadata, activity, system_status,
                   status, os_fault, http_outcome, send_result, posts, exc,
                   exit_code, scan_names, scan_table, scan_result>>

\* collect_status, third call: system_status = self.collect_system_status()
CollectSystemStatus ==
    /\ pc = "collect_system_status"
    /\ \E f \in OsFaults :
         LET r == collect_system_status(f)
         IN /\ os_fault' = <<f>>
            /\ log' = log \o r.log
            /\ IF r.exc # "none"
               THEN /\ exc' = r.exc
                    /\ pc' = "except"
                    /\ UNCHANGED system_status
               ELSE /\ system_status' = <<r.val>>
                    /\ pc' = "compose"
                    /\ UNCHANGED exc
    /\ UNCHANGED <<config_file, rig_id, metadata, activity, network_info,
                   status, net_fault, http_outcome, send_result, posts,
                   exit_code, scan_names, scan_table, scan_result>>

\* collect_status: the status dict literal and the return
ComposeStatus ==
    /\ pc = "compose"
    /\ status' = <<collect_status(rig_id[1], metadata[1], activity[1],
                                  network_info[1], system_status[1])>>
    /\ pc' = "send_heartbeat"
    /\ UNCHANGED <<config_file, rig_id, metadata, activity, network_info,
                   system_status, net_fault, os_fault, http_outcome,
                   send_result, posts, exc, log, exit_code,
                   scan_names, scan_table, scan_result>>

SendHeartbeatRetry ==
    /\ pc = "send_heartbeat"
    /\ \E o \in HttpOutcomes :
         LET r == send_heartbeat(o)
         IN /\ http_outcome' = <<o>>
            /\ send_result' = <<r.ret>>
            /\ log' = log \o r.log
            /\ posts' = posts + (IF OnTheWire(o) THEN (IF r.ret THEN 1 ELSE 2) ELSE 0)
    /\ pc' = "return"
    /\ UNCHANGED <<config_file, rig_id, metadata, activity, network_info,
                   system_status, status, net_fault, os_fault, exc, exit_code,
                   scan_names, scan_table, scan_result>>

\* run(): self.send_heartbeat(status); every Exception is handled inside
SendHeartbeat ==
    /\ pc = "send_heartbeat"
    /\ \E o \in HttpOutcomes :
         LET r == send_heartbeat(o)
         IN /\ http_outcome' = <<o>>
            /\ send_result' = <<r.ret>>
            /\ log' = log \o r.log
            /\ posts' = posts + (IF OnTheWire(o) THEN 1 ELSE 0)
    /\ pc' = "return"
    /\ UNCHANGED <<config_file, rig_id, metadata, activity, network_info,
                   system_status, status, net_fault, os_fault, exc, exit_code,
                   scan_names, scan_table, scan_result>>

RunExceptSwallow ==
    /\ pc = "except"
    /\ log' = Append(log, "Error in agent run")
    /\ exit_code' = 0
    /\ pc' = "exited"
    /\ UNCHANGED <<config_file, rig_id, metadata, activity, network_info,
                   system_status, status, net_fault, os_fault, http_outcome,
                   send_result, posts, exc, scan_names, scan_table, scan_result>>

\* run(): except Exception -> logger.error, sys.exit(1)
RunExcept ==
    /\ pc = "except"
    /\ log' = Append(log, "Error in agent run")
    /\ exit_code' = 1
    /\ pc' = "exited"
    /\ UNCHANGED <<config_file, rig_id, metadata, activity, network_info,
                   system_status, status, net_fault, os_fault, http_outcome,
                   send_result, posts, exc, scan_names, scan_table, scan_result>>

\* run() returns and the script ends: exit status 0
Finish ==
    /\ pc = "return"
    /\ exit_code' = 0
    /\ pc' = "exited"
    /\ UNCHANGED <<config_file, rig_id, metadata, activity, network_info,
                   system_status, status, net_fault, os_fault, http_outcome,
                   send_result, posts, exc, log, scan_names, scan_table,
                   scan_result>>

Next ==
    \/ Construct
    \/ RunStart
    \/ CheckTestRunning
    \/ GetNetworkInfo
    \/ CollectSystemStatus
    \/ ComposeStatus
    \/ SendHeartbeat
    \/ RunExcept
    \/ Finish

Spec == Init /\ [][Next]_vars

(***************************************************************************)
(* check_test_running on its own, over every bounded list and table        *)
(***************************************************************************)
InitScan ==
    /\ pc = "scan"
    /\ config_file = [kind |-> "missing", content |-> EmptyDict]
    /\ rig_id = <<>>
    /\ metadata = <<>>
    /\ activity = <<>>
    /\ network_info = <<>>
    /\ system_status = <<>>
    /\ status = <<>>
    /\ net_fault = <<>>
    /\ os_fault = <<>>
    /\ http_outcome = <<>>
    /\ send_result = <<>>
    /\ posts = 0
    /\ exc = "none"
    /\ log = <<>>
    /\ exit_code = Running
    /\ scan_names \in NameLists
    /\ scan_table \in ProcessTables
    /\ scan_result = <<>>

ScanProcesses ==
    /\ pc = "scan"
    /\ scan_result' = <<check_test_running(scan_names, scan_table)>>
    /\ pc' = "scanned"
    /\ UNCHANGED <<config_file, rig_id, metadata, activity, network_info,
                   system_status, status, net_fault, os_fault, http_outcome,
                   send_result, posts, exc, log, exit_code,
                   scan_names, scan_table>>

NextScan == ScanProcesses

SpecScan == InitScan /\ [][NextScan]_vars

(***************************************************************************)
(* Properties                                                              *)
(***************************************************************************)
ConfigLoaded ==
    /\ config_file.kind = "ok"
    /\ RequiredKeys \subseteq DOMAIN config_file.content

Sent == http_outcome # <<>>

\* C1: send_heartbeat never raises to its caller and returns True exactly
\* when the POST produced a response with status 200; any other status and
\* any exception give False.
C1_SendTrueIff200 ==
    Sent =>
        /\ pc \in {"return", "exited"}
        /\ exc = "none"
        /\ send_result \in {<<TRUE>>, <<FALSE>>}
        /\ (send_result = <<TRUE>>) <=>
               (http_outcome[1].kind = "response" /\ http_outcome[1].code = 200)

C1_Witness ==
    /\ pc = "return"
    /\ Sent
    /\ http_outcome[1].kind = "response"
    /\ http_outcome[1].code = 201
    /\ send_result = <<FALSE>>

\* C2: the exit status is 0 exactly when the configuration loaded and no
\* exception reached run's handler; a failed send still exits 0, and a
\* missing file, invalid JSON or escaped exception exits non-zero.
C2_ExitZeroIffNoFault ==
    pc = "exited" =>
        /\ (exit_code = 0) <=> (ConfigLoaded /\ exc = "none")
        /\ exit_code # 0 => exit_code = 1
        /\ Sent => exit_code = 0
        /\ config_file.kind \in {"missing", "invalid"} => exit_code # 0

C2_Witness ==
    /\ pc = "exited"
    /\ Sent
    /\ http_outcome[1].kind = "raised"
    /\ send_result = <<FALSE>>
    /\ exit_code = 0

\* C3 (as claimed): whenever an OS query of collect_system_status fails,
\* boot time included, the snapshot is empty, nothing propagates and the
\* cycle goes on to compose the report.
C3_OsFaultAbsorbed ==
    (os_fault # <<>> /\ os_fault[1] # "none") =>
        /\ system_status = <<EmptyDict>>
        /\ exc = "none"
        /\ pc # "except"
        /\ pc = "exited" => exit_code = 0

\* C4 (as claimed): every metadata key that collides with a built-in field
\* name, agent_version and os included, carries the metadata value in the
\* report.
C4_MetadataWinsEverywhere ==
    status # <<>> =>
        \A k \in (DOMAIN metadata[1]) \cap BuiltinKeys :
            status[1][k] = metadata[1][k]

\* C4 (amended): every metadata key that collides with a built-in field name
\* other than agent_version and os carries the metadata value in the report;
\* agent_version and os are written after the metadata and keep their
\* built-in values.
C4_MetadataWinsExceptTail ==
    status # <<>> =>
        /\ \A k \in (DOMAIN metadata[1]) \cap (BuiltinKeys \ TailKeys) :
               status[1][k] = metadata[1][k]
        /\ \A k \in (DOMAIN metadata[1]) \ BuiltinKeys :
               status[1][k] = metadata[1][k]
        /\ status[1]["agent_version"] = AgentVersion
        /\ status[1]["os"] = Platform

C4_Witness ==
    /\ status # <<>>
    /\ "hostname" \in DOMAIN metadata[1]
    /\ net_fault = <<"none">>
    /\ status[1]["hostname"] = MetaValue

\* C5 (as claimed): the report's rig_id is the configured rig_id whatever
\* keys the metadata contains.
C5_RigIdPreserved ==
    status # <<>> => status[1]["rig_id"] = config_file.content["rig_id"]

\* C6 (as claimed): in every report the status field is "busy" exactly when
\* the report's is_testing field is true and "available" otherwise.
C6_StatusTwoWay ==
    status # <<>> =>
        /\ status[1]["status"] \in {"busy", "available"}
        /\ (status[1]["status"] = "busy") <=> (status[1]["is_testing"] = "true")

\* C7: check_test_running reports (True, n) only for a name n read from a
\* live process and equal to a configured entry, reports (False, None) when
\* no live name equals an entry (so always for an empty list), gives a name
\* exactly when it reports True, and carries on past processes that raise
\* NoSuchProcess or AccessDenied.
C7_ScanExactMatch ==
    (scan_result # <<>> /\ scan_result[1].exc = "none") =>
        LET r == scan_result[1]
            Live == {i \in DOMAIN scan_table : scan_table[i].kind = "ok"}
            Hits == {i \in Live :
                        \E j \in DOMAIN scan_names :
                            scan_names[j] = scan_table[i].name}
        IN /\ r.is_testing =>
                  \E i \in Hits : scan_table[i].name = r.test_name
           /\ Hits = {} => (~r.is_testing /\ r.test_name = None)
           /\ Hits # {} => r.is_testing
           /\ r.is_testing <=> (r.test_name # None)
           /\ scan_names = <<>> => ~r.is_testing

C7_Witness ==
    /\ scan_result # <<>>
    /\ Len(scan_table) = 2
    /\ scan_table[1].kind = "AccessDenied"
    /\ scan_table[1].name = "HIL.EXE"
    /\ scan_table[2] = [kind |-> "ok", name |-> "hil.exe"]
    /\ scan_names = <<"hil", "hil.exe">>
    /\ scan_result[1] = [exc |-> "none", is_testing |-> TRUE, test_name |-> "hil.exe"]

\* C8 (as claimed): every timeout, a timeout while connecting included, is
\* logged as a timeout, every unreachable-endpoint failure as a connection
\* failure, and any other fault with its own cause.
C8_FaultsLoggedDistinctly ==
    (Sent /\ http_outcome[1].kind = "raised") =>
        LET e == http_outcome[1].exception
            last == log[Len(log)]
        IN /\ e \in {"ConnectTimeout", "ReadTimeout"} =>
                  (pc = "return" => last = "Server request timed out")
           /\ e = "ConnectionError" =>
                  (pc = "return" => last = "Cannot connect to server")
           /\ e = "InvalidURL" =>
                  (pc = "return" => last = "Error sending heartbeat")

\* C9: at most one POST leaves the process, and only after the configuration
\* loaded, the process probe, the network probe and the metrics collection
\* ran in that order and the report was composed; where the configuration
\* does not load or an exception escapes before the send, no POST is issued
\* and the exit status is non-zero.
C9_SinglePostAfterCompose ==
    /\ posts \in {0, 1}
    /\ posts = 1 => (Sent /\ status # <<>> /\ ConfigLoaded)
    /\ Sent => status # <<>>
    /\ status # <<>> => system_status # <<>>
    /\ system_status # <<>> => network_info # <<>>
    /\ network_info # <<>> => activity # <<>>
    /\ activity # <<>> => (rig_id # <<>> /\ ConfigLoaded)
    /\ (pc = "exited" /\ (~ConfigLoaded \/ exc # "none")) =>
           (posts = 0 /\ ~Sent /\ exit_code # 0)

C9_Witness ==
    /\ pc = "exited"
    /\ posts = 1
    /\ send_result = <<FALSE>>
    /\ http_outcome[1].exception = "ReadTimeout"

\* C10: get_network_info never raises; a failure of either lookup gives
\* hostname "unknown" with ip_address "unknown", both lookups succeeding
\* gives the resolved pair, and the cycle carries on to the metrics step and
\* composes the report with what the probe returned.
C10_NetworkProbeAbsorbs ==
    net_fault # <<>> =>
        /\ network_info # <<>>
        /\ net_fault[1] # "none" =>
               network_info[1] = [hostname |-> "unknown", ip_address |-> "unknown"]
        /\ net_fault[1] = "none" =>
               network_info[1] = [hostname |-> LocalHostname, ip_address |-> LocalIp]
        /\ os_fault = <<>> => (pc = "collect_system_status" /\ exc = "none")
        /\ status # <<>> =>
               \A k \in NetworkKeys \ DOMAIN metadata[1] :
                   status[1][k] = network_info[1][k]

C10_Witness ==
    /\ net_fault = <<"gethostbyname">>
    /\ posts = 1
    /\ status[1]["hostname"] = "unknown"
    /\ status[1]["ip_address"] = "unknown"

====
